---- MODULE Spec2Model ----
(***************************************************************************)
(* BlackRoad Meet: the room registry of src/src/meet_server.py.            *)
(* MeetServer keeps rooms and participant sessions in two dictionaries and *)
(* mirrors every mutation into two SQLite tables.  Each public method is   *)
(* one action; an exception that leaves a method is recorded in `raised`   *)
(* and the registry object stays usable by a caller that catches it.       *)
(***************************************************************************)
EXTENDS Integers, Sequences, FiniteSets, TLC

\* ------------------------------------------------------------------ bounds
MaxCap == 3            \* largest max_size handed to create_room
MaxTicks == 1          \* how often the wall clock advances
TickSeconds == 90      \* seconds the wall clock advances by
MaxCreates == 2        \* how many create_room calls are made
MaxN == 2              \* largest n handed to get_user_history

Callers == {"t1", "t2"}          \* threads calling into one MeetServer
RoomIds == {"r1", "r2"}          \* values of str(uuid.uuid4())[:8] for rooms
PartIds == {"p1", "p2"}          \* values of str(uuid.uuid4())[:8] for sessions
Users == {"bob", "carol"}
Names == {"Standup"}
Hosts == {"alice"}
Urls == {"", "rec"}              \* recording_url arguments; "" is the default
MaxSizes == {0 - 1, 0, 1, MaxCap} \* max_size arguments: any int, also negative
Flags == {"None", "True", "False"}   \* Optional[bool] arguments of toggle_media

\* ------------------------------------------------------- program constants
SecondsPerMinute == 60

\* Optional[datetime]: None is the empty sequence, a datetime t is <<t>>.
None == << >>
Some(t) == << t >>

VARIABLES
    rooms,            \* self.rooms: room_id -> Room
    participants,     \* self.participants: room_id -> set of Participant
    db_rooms,         \* table rooms: id -> row
    db_participants,  \* table participants: set of rows, id is the key
    now,              \* what datetime.now() returns, in seconds
    call,             \* the last method called and its room_id argument
    result,           \* what it returned ("" when it raised)
    raised,           \* the exception that left it ("" when it returned)
    joins_ok,         \* room_id -> join_room calls that returned True since
                      \* the room was created (history variable)
    creates,          \* create_room calls made so far (history variable)
    order,            \* the keys of self.rooms in insertion order, which is
                      \* the order a dict iterates in
    left_user,        \* the user the last call removed from a list, "" if it
                      \* removed none (history variable)
    ended_before,     \* the ended_at and recording_url the last call found
                      \* if it was an end_room on a room already ended,
                      \* None otherwise (history variable)
    callers           \* caller -> where it stands inside join_room when calls
                      \* are made without mutual exclusion; every caller is
                      \* idle while calls run one at a time

vars == << rooms, participants, db_rooms, db_participants, now, call, result,
           raised, joins_ok, creates, order, left_user, ended_before,
           callers >>

\* ------------------------------------------------------------ data classes
\* dataclass Room
Room(id, name, host, max_size, created_at) ==
    [ id |-> id, name |-> name, host |-> host, participants |-> << >>,
      max_size |-> max_size, status |-> "active", created_at |-> created_at,
      ended_at |-> None, recording_url |-> "" ]

\* dataclass Participant
Participant(id, room_id, user, joined_at) ==
    [ id |-> id, room_id |-> room_id, user |-> user, joined_at |-> joined_at,
      left_at |-> None, camera_on |-> TRUE, mic_on |-> TRUE ]

\* @dataclass with eq=True and frozen=False sets __hash__ to None, so a
\* Participant cannot be put into a set: set.add raises TypeError.
ParticipantHashable == FALSE

\* d[k] = v on a dictionary
Put(d, k, v) == [ x \in DOMAIN d \cup {k} |-> IF x = k THEN v ELSE d[x] ]

\* the last occurrence dropped instead of the first
RECURSIVE ListRemove_Last(_, _)
ListRemove_Last(s, x) ==
    IF s = << >> THEN << >>
    ELSE IF s[Len(s)] = x THEN SubSeq(s, 1, Len(s) - 1)
    ELSE ListRemove_Last(SubSeq(s, 1, Len(s) - 1), x) \o << s[Len(s)] >>

\* list.remove(x): drops the first occurrence of x
RECURSIVE ListRemove(_, _)
ListRemove(s, x) ==
    IF s = << >> THEN << >>
    ELSE IF Head(s) = x THEN Tail(s)
    ELSE << Head(s) >> \o ListRemove(Tail(s), x)

\* the membership test taken for "the list is not empty"
InList_NonEmpty(x, s) == s # << >>

\* x in list
InList(x, s) == \E i \in 1..Len(s) : s[i] = x

\* the capacity test off by one: > for >=
RoomFull_OffByOne(room) == Len(room.participants) > room.max_size

\* len(room.participants) >= room.max_size
RoomFull(room) == Len(room.participants) >= room.max_size

\* the duration rounded up instead of truncated
DurationMinutes_RoundsUp(created_at, ended_at) ==
    ((ended_at - created_at) + (SecondsPerMinute - 1)) \div SecondsPerMinute

\* int(seconds / 60): Python's int() truncates towards zero
DurationMinutes(created_at, ended_at) ==
    LET secs == ended_at - created_at
    IN  IF secs >= 0 THEN secs \div SecondsPerMinute
        ELSE 0 - ((0 - secs) \div SecondsPerMinute)

Called(op, room_id) == [ op |-> op, room_id |-> room_id ]

NoCall == Called("init", "")

\* a caller that is in no method
Idle == [ pc |-> "idle", room_id |-> "", user |-> "", saw |-> 0, result |-> "" ]

\* ------------------------------------------------------------------- Init
\* MeetServer.__init__ on a fresh database file
Init ==
    /\ rooms = << >>
    /\ participants = << >>
    /\ db_rooms = << >>
    /\ db_participants = {}
    /\ now = 0
    /\ call = NoCall
    /\ result = ""
    /\ raised = ""
    /\ joins_ok = << >>
    /\ creates = 0
    /\ order = << >>
    /\ left_user = ""
    /\ ended_before = None
    /\ callers = [ t \in Callers |-> Idle ]

\* ---------------------------------------------------------------- storage
\* datetime.isoformat(): the TEXT stored in created_at, joined_at, ...
IsoFormat(t) == [ iso |-> t ]

\* f"https://meet.blackroad.io/r/{room_id}"
JoinUrl(room_id) == << "https://meet.blackroad.io/r/", room_id >>

\* INSERT INTO rooms ... VALUES (room_id, name, host, max_size, 'active',
\*                               created_at.isoformat(), None, '')
RoomRow(room_id, name, host, max_size, created_at) ==
    [ id |-> room_id, name |-> name, host |-> host, max_size |-> max_size,
      status |-> "active", created_at |-> IsoFormat(created_at),
      ended_at |-> None, recording_url |-> "" ]

\* INSERT INTO participants ... VALUES (participant_id, room_id, user,
\*                                      joined_at.isoformat(), None, 1, 1)
ParticipantRow(participant_id, room_id, user, joined_at) ==
    [ id |-> participant_id, room_id |-> room_id, user |-> user,
      joined_at |-> IsoFormat(joined_at), left_at |-> None,
      camera_on |-> 1, mic_on |-> 1 ]

\* UPDATE participants SET left_at = ? WHERE room_id = ? AND user = ?
\*                                     AND left_at IS NULL
StampLeft(rows, room_id, user, left_at) ==
    { IF row.room_id = room_id /\ row.user = user /\ row.left_at = None
        THEN [ row EXCEPT !.left_at = Some(IsoFormat(left_at)) ]
        ELSE row : row \in rows }

\* the UPDATE without its status column
EndRow_KeepsStatus(table, room_id, ended_at, recording_url) ==
    [ id \in DOMAIN table |->
        IF id = room_id
          THEN [ table[id] EXCEPT !.ended_at = Some(IsoFormat(ended_at)),
                                  !.recording_url = recording_url ]
          ELSE table[id] ]

\* the UPDATE made to skip a row that is ended already
EndRow_KeepsFirstEnd(table, room_id, ended_at, recording_url) ==
    [ id \in DOMAIN table |->
        IF id = room_id /\ table[id].status # "ended"
          THEN [ table[id] EXCEPT !.status = "ended",
                                  !.ended_at = Some(IsoFormat(ended_at)),
                                  !.recording_url = recording_url ]
          ELSE table[id] ]

\* UPDATE rooms SET status = 'ended', ended_at = ?, recording_url = ?
\*              WHERE id = ?
EndRow(table, room_id, ended_at, recording_url) ==
    [ id \in DOMAIN table |->
        IF id = room_id
          THEN [ table[id] EXCEPT !.status = "ended",
                                  !.ended_at = Some(IsoFormat(ended_at)),
                                  !.recording_url = recording_url ]
          ELSE table[id] ]

\* ---------------------------------------------------------------- actions
\* MeetServer.create_room
CreateRoom(name, host, max_size) ==
    \E room_id \in RoomIds :
        /\ creates < MaxCreates
        /\ creates' = creates + 1
        /\ call' = Called("create_room", room_id)
        /\ rooms' = Put(rooms, room_id, Room(room_id, name, host, max_size, now))
        /\ participants' = Put(participants, room_id, {})
        /\ joins_ok' = Put(joins_ok, room_id, 0)
        /\ order' = IF room_id \in DOMAIN rooms THEN order
                     ELSE Append(order, room_id)
        /\ left_user' = "" /\ ended_before' = None
        /\ IF room_id \in DOMAIN db_rooms
             THEN \* rooms.id is the PRIMARY KEY: the INSERT raises
                  /\ db_rooms' = db_rooms
                  /\ raised' = "IntegrityError"
                  /\ result' = ""
             ELSE /\ db_rooms' = Put(db_rooms, room_id,
                                     RoomRow(room_id, name, host, max_size, now))
                  /\ raised' = ""
                  /\ result' = room_id
        /\ UNCHANGED << db_participants, now, callers >>

\* MeetServer.join_room
JoinRoom(room_id, user) ==
    /\ call' = Called("join_room", room_id)
    /\ IF room_id \notin DOMAIN rooms
         THEN /\ result' = "False" /\ raised' = ""
              /\ UNCHANGED << rooms, participants, db_participants, joins_ok >>
       ELSE IF RoomFull(rooms[room_id])
         THEN /\ result' = "False" /\ raised' = ""
              /\ UNCHANGED << rooms, participants, db_participants, joins_ok >>
       ELSE \E participant_id \in PartIds :
            LET participant == Participant(participant_id, room_id, user, now)
            IN  /\ rooms' = [ rooms EXCEPT ![room_id].participants =
                                               Append(@, user) ]
                /\ IF ~ParticipantHashable
                     THEN \* self.participants[room_id].add raises TypeError
                          /\ raised' = "TypeError" /\ result' = ""
                          /\ UNCHANGED << participants, db_participants, joins_ok >>
                     ELSE /\ participants' = [ participants EXCEPT ![room_id] =
                                                   @ \cup {participant} ]
                          /\ IF \E row \in db_participants : row.id = participant_id
                               THEN \* participants.id is the PRIMARY KEY
                                    /\ raised' = "IntegrityError" /\ result' = ""
                                    /\ UNCHANGED << db_participants, joins_ok >>
                               ELSE /\ db_participants' = db_participants \cup
                                          { ParticipantRow(participant_id, room_id,
                                                           user, now) }
                                    /\ raised' = "" /\ result' = "True"
                                    /\ joins_ok' = [ joins_ok EXCEPT ![room_id] = @ + 1 ]
    /\ left_user' = "" /\ ended_before' = None
    /\ UNCHANGED << db_rooms, now, creates, order, callers >>

\* MeetServer.leave_room
LeaveRoom(room_id, user) ==
    /\ call' = Called("leave_room", room_id)
    /\ raised' = ""
    /\ IF room_id \notin DOMAIN rooms
         THEN /\ result' = "False" /\ left_user' = ""
              /\ UNCHANGED << rooms, db_participants >>
       ELSE IF ~InList(user, rooms[room_id].participants)
         THEN /\ result' = "False" /\ left_user' = ""
              /\ UNCHANGED << rooms, db_participants >>
       ELSE /\ rooms' = [ rooms EXCEPT ![room_id].participants =
                                           ListRemove(@, user) ]
            /\ db_participants' = StampLeft(db_participants, room_id, user, now)
            /\ result' = "True" /\ left_user' = user
    /\ ended_before' = None
    /\ UNCHANGED << participants, db_rooms, now, joins_ok, creates, order,
                    callers >>

\* toggle_media that also writes the flags of a listed user to the table
ToggleMedia_Persists(room_id, user, camera, mic) ==
    /\ call' = Called("toggle_media", room_id)
    /\ raised' = ""
    /\ result' = "False"
    /\ db_participants' =
           IF room_id \in DOMAIN rooms /\ InList(user, rooms[room_id].participants)
             THEN db_participants \cup
                      { [ ParticipantRow(p, room_id, user, now)
                            EXCEPT !.camera_on = IF camera = "False" THEN 0 ELSE 1,
                                   !.mic_on = IF mic = "False" THEN 0 ELSE 1 ]
                        : p \in { "p1" } }
             ELSE db_participants
    /\ left_user' = "" /\ ended_before' = None
    /\ UNCHANGED << rooms, participants, db_rooms, now, joins_ok, creates,
                    order, callers >>

\* MeetServer.toggle_media
ToggleMedia(room_id, user, camera, mic) ==
    /\ call' = Called("toggle_media", room_id)
    /\ raised' = ""
    /\ IF room_id \notin DOMAIN rooms
         THEN /\ result' = "False"
              /\ UNCHANGED participants
       ELSE IF \A p \in participants[room_id] : p.user # user
         THEN /\ result' = "False"
              /\ UNCHANGED participants
       ELSE \* the first match in the set's iteration order
            \E p \in { q \in participants[room_id] : q.user = user } :
                LET toggled ==
                        [ p EXCEPT !.camera_on = IF camera = "None" THEN @
                                                 ELSE camera = "True",
                                   !.mic_on = IF mic = "None" THEN @
                                              ELSE mic = "True" ]
                IN  /\ participants' = [ participants EXCEPT ![room_id] =
                                             (@ \ {p}) \cup {toggled} ]
                    /\ result' = "True"
    /\ left_user' = "" /\ ended_before' = None
    /\ UNCHANGED << rooms, db_rooms, db_participants, now, joins_ok, creates,
                    order, callers >>

\* MeetServer.end_room
EndRoom(room_id, recording_url) ==
    /\ call' = Called("end_room", room_id)
    /\ raised' = ""
    /\ IF room_id \notin DOMAIN rooms
         THEN /\ result' = "False" /\ ended_before' = None
              /\ UNCHANGED << rooms, db_rooms >>
         ELSE /\ ended_before' =
                     IF rooms[room_id].status = "ended"
                       THEN Some([ ended_at |-> rooms[room_id].ended_at,
                                   recording_url |-> rooms[room_id].recording_url ])
                       ELSE None
              /\ rooms' = [ rooms EXCEPT ![room_id].status = "ended",
                                         ![room_id].ended_at = Some(now),
                                         ![room_id].recording_url = recording_url ]
              /\ db_rooms' = EndRow(db_rooms, room_id, now, recording_url)
              /\ result' = "True"
    /\ left_user' = ""
    /\ UNCHANGED << participants, db_participants, now, joins_ok, creates,
                    order, callers >>

\* datetime.now(): the wall clock moves on between two calls
Tick ==
    /\ now < MaxTicks * TickSeconds
    /\ now' = now + TickSeconds
    /\ UNCHANGED << rooms, participants, db_rooms, db_participants, call,
                    result, raised, joins_ok, creates, order, left_user,
                    ended_before, callers >>

\* ---------------------------------------------------------------- queries
\* MeetServer.get_room
get_room(room_id) ==
    IF room_id \notin DOMAIN rooms THEN None
    ELSE LET room == rooms[room_id]
         IN  Some([ id |-> room.id, name |-> room.name, host |-> room.host,
                    participants |-> room.participants,
                    max_size |-> room.max_size, status |-> room.status,
                    created_at |-> IsoFormat(room.created_at),
                    ended_at |-> IF room.ended_at # None
                                   THEN Some(IsoFormat(room.ended_at[1]))
                                   ELSE None,
                    recording_url |-> room.recording_url,
                    duration_minutes |->
                        IF room.ended_at # None
                          THEN Some(DurationMinutes(room.created_at,
                                                    room.ended_at[1]))
                          ELSE None ])

\* MeetServer.get_active_rooms (as the set of the snapshots it lists)
get_active_rooms ==
    { get_room(rid)[1] : rid \in { r \in DOMAIN rooms : rooms[r].status = "active" } }

\* join events taken from the live list instead of the table
JoinEvents_FromList(room_id) == Len(rooms[room_id].participants)

\* SELECT COUNT(*) FROM participants WHERE room_id = ?
JoinEvents(room_id) ==
    Cardinality({ row \in db_participants : row.room_id = room_id })

\* MeetServer.room_stats
room_stats(room_id) ==
    IF room_id \notin DOMAIN rooms THEN None
    ELSE LET room == rooms[room_id]
         IN  Some([ peak_participants |-> Len(room.participants),
                    duration_min |->
                        IF room.ended_at # None
                          THEN DurationMinutes(room.created_at, room.ended_at[1])
                          ELSE 0,
                    join_events |-> JoinEvents(room_id) ])

\* sorted(history, key=...) without reverse=True: oldest room first
SortedByCreatedAt_Ascending(history) ==
    LET Pos(i) == Cardinality({ j \in 1..Len(history) :
                       \/ history[j].created_at.iso < history[i].created_at.iso
                       \/ /\ history[j].created_at.iso = history[i].created_at.iso
                          /\ j < i }) + 1
    IN  [ p \in 1..Len(history) |->
              history[CHOOSE i \in 1..Len(history) : Pos(i) = p] ]

\* sorted(history, key=lambda x: x['created_at'], reverse=True): a stable
\* sort, entries with equal keys keep the order they had in history
SortedByCreatedAt(history) ==
    LET Pos(i) == Cardinality({ j \in 1..Len(history) :
                       \/ history[j].created_at.iso > history[i].created_at.iso
                       \/ /\ history[j].created_at.iso = history[i].created_at.iso
                          /\ j < i }) + 1
    IN  [ p \in 1..Len(history) |->
              history[CHOOSE i \in 1..Len(history) : Pos(i) = p] ]

\* list[:n]
Slice(list, n) ==
    IF n >= 0 THEN SubSeq(list, 1, IF n < Len(list) THEN n ELSE Len(list))
    ELSE SubSeq(list, 1, IF Len(list) + n > 0 THEN Len(list) + n ELSE 0)

\* MeetServer.get_user_history
get_user_history(user, n) ==
    LET matching == SelectSeq(order, LAMBDA rid :
                        /\ InList(user, rooms[rid].participants)
                        /\ rooms[rid].status = "ended")
        history == [ i \in 1..Len(matching) |-> get_room(rooms[matching[i]].id)[1] ]
    IN  Slice(SortedByCreatedAt(history), n)

\* ------------------------------------------------------------------- Next
Next ==
    \/ \E name \in Names, host \in Hosts, max_size \in MaxSizes :
           CreateRoom(name, host, max_size)
    \/ \E room_id \in RoomIds, user \in Users : JoinRoom(room_id, user)
    \/ \E room_id \in RoomIds, user \in Users : LeaveRoom(room_id, user)
    \/ \E room_id \in RoomIds, user \in Users, camera \in Flags, mic \in Flags :
           ToggleMedia(room_id, user, camera, mic)
    \/ \E room_id \in RoomIds, recording_url \in Urls : EndRoom(room_id, recording_url)
    \/ Tick

Spec == Init /\ [][Next]_vars

\* ------------------------------------------- calls without mutual exclusion
\* A thread can be switched out between any two statements of join_room, so
\* the statements of one call are steps that the statements of another call
\* can come between.

\* the server after __init__ and one create_room
RaceInit ==
    \E name \in Names, host \in Hosts, max_size \in MaxSizes :
        /\ rooms = Put(<< >>, "r1", Room("r1", name, host, max_size, 0))
        /\ participants = Put(<< >>, "r1", {})
        /\ db_rooms = Put(<< >>, "r1", RoomRow("r1", name, host, max_size, 0))
        /\ db_participants = {}
        /\ now = 0
        /\ call = Called("create_room", "r1")
        /\ result = "r1"
        /\ raised = ""
        /\ joins_ok = Put(<< >>, "r1", 0)
        /\ creates = 1
        /\ order = << "r1" >>
        /\ left_user = ""
        /\ ended_before = None
        /\ callers = [ t \in Callers |-> Idle ]

\* a caller enters join_room(room_id, user)
JoinBegin(t, room_id, user) ==
    /\ callers[t].pc \in { "idle", "done" }
    /\ callers' = [ callers EXCEPT ![t] =
                       [ Idle EXCEPT !.pc = "check", !.room_id = room_id,
                                     !.user = user ] ]
    /\ UNCHANGED << rooms, participants, db_rooms, db_participants, now, call,
                    result, raised, joins_ok, creates, order, left_user,
                    ended_before >>

\* the two checks of join_room; saw is the length the capacity check read
JoinCheck(t) ==
    /\ callers[t].pc = "check"
    /\ LET room_id == callers[t].room_id
       IN  IF room_id \notin DOMAIN rooms
             THEN callers' = [ callers EXCEPT ![t].pc = "done",
                                              ![t].result = "False" ]
           ELSE IF RoomFull(rooms[room_id])
             THEN callers' = [ callers EXCEPT ![t].pc = "done",
                                              ![t].result = "False" ]
           ELSE callers' = [ callers EXCEPT
                               ![t].pc = "append",
                               ![t].saw = Len(rooms[room_id].participants) ]
    /\ UNCHANGED << rooms, participants, db_rooms, db_participants, now, call,
                    result, raised, joins_ok, creates, order, left_user,
                    ended_before >>

\* room.participants.append(user)
JoinAppend(t) ==
    /\ callers[t].pc = "append"
    /\ rooms' = [ rooms EXCEPT ![callers[t].room_id].participants =
                                  Append(@, callers[t].user) ]
    /\ callers' = [ callers EXCEPT ![t].pc = "add" ]
    /\ UNCHANGED << participants, db_rooms, db_participants, now, call,
                    result, raised, joins_ok, creates, order, left_user,
                    ended_before >>

\* self.participants[room_id].add(participant), the INSERT and the return
JoinAdd(t) ==
    /\ callers[t].pc = "add"
    /\ \E participant_id \in PartIds :
        LET room_id == callers[t].room_id
            user == callers[t].user
            participant == Participant(participant_id, room_id, user, now)
        IN  IF ~ParticipantHashable
              THEN \* the add raises TypeError
                   /\ callers' = [ callers EXCEPT ![t].pc = "done",
                                                  ![t].result = "TypeError" ]
                   /\ UNCHANGED << participants, db_participants, joins_ok >>
              ELSE /\ participants' = [ participants EXCEPT ![room_id] =
                                           @ \cup {participant} ]
                   /\ IF \E row \in db_participants : row.id = participant_id
                        THEN /\ callers' = [ callers EXCEPT
                                               ![t].pc = "done",
                                               ![t].result = "IntegrityError" ]
                             /\ UNCHANGED << db_participants, joins_ok >>
                        ELSE /\ db_participants' = db_participants \cup
                                   { ParticipantRow(participant_id, room_id,
                                                    user, now) }
                             /\ callers' = [ callers EXCEPT
                                               ![t].pc = "done",
                                               ![t].result = "True" ]
                             /\ joins_ok' = [ joins_ok EXCEPT ![room_id] = @ + 1 ]
    /\ UNCHANGED << rooms, db_rooms, now, call, result, raised, creates, order,
                    left_user, ended_before >>

RaceNext ==
    \/ \E t \in Callers, room_id \in RoomIds, user \in Users :
           JoinBegin(t, room_id, user)
    \/ \E t \in Callers : JoinCheck(t)
    \/ \E t \in Callers : JoinAppend(t)
    \/ \E t \in Callers : JoinAdd(t)

SpecRace == RaceInit /\ [][RaceNext]_vars

\* ================================================================= claims
Max(a, b) == IF a >= b THEN a ELSE b

Known(room_id) == room_id \in DOMAIN rooms

\* the list holds pairwise distinct users
Distinct(list) == \A i, j \in 1..Len(list) : list[i] = list[j] => i = j

\* nothing but joins of distinct users has touched the room since create_room
OnlyJoined(room_id) ==
    /\ rooms[room_id].status = "active"
    /\ rooms[room_id].ended_at = None
    /\ Distinct(rooms[room_id].participants)

\* C1: on a room created with max_size M >= 0 and touched by nothing but
\* joins of distinct users, join_room returns True while fewer than M users
\* have joined, and False once M have.
C1_JoinsUpToCapacity ==
    [][ call'.op = "join_room" =>
        LET room_id == call'.room_id
        IN  \A user \in Users :
              ( /\ JoinRoom(room_id, user)
                /\ Known(room_id)
                /\ rooms[room_id].max_size >= 0
                /\ OnlyJoined(room_id)
                /\ ~InList(user, rooms[room_id].participants) )
              => /\ raised' = ""
                 /\ result' = IF Len(rooms[room_id].participants)
                                    < rooms[room_id].max_size
                                THEN "True" ELSE "False" ]_vars

\* C2 as stated: every active room holds at most max_size participants,
\* whatever integer max_size create_room was given.
C2_ActiveWithinMaxSize ==
    \A room_id \in DOMAIN rooms :
        rooms[room_id].status = "active"
            => Len(rooms[room_id].participants) <= rooms[room_id].max_size

\* C2 amended: every active room holds at most max(max_size, 0)
\* participants, so at most max_size whenever max_size >= 0.
C2_ActiveWithinCapacity ==
    \A room_id \in DOMAIN rooms :
        rooms[room_id].status = "active"
            => Len(rooms[room_id].participants)
                   <= Max(rooms[room_id].max_size, 0)

\* an active room filled to a positive max_size has just turned a join away
C2_Witness ==
    /\ call.op = "join_room"
    /\ result = "False"
    /\ Known(call.room_id)
    /\ rooms[call.room_id].status = "active"
    /\ rooms[call.room_id].max_size = MaxCap
    /\ Len(rooms[call.room_id].participants) = MaxCap

\* C3: ended_at is set exactly when status is 'ended', in every in-memory
\* room and in every row of the rooms table.
C3_EndedAtIffEnded ==
    /\ \A room_id \in DOMAIN rooms :
           (rooms[room_id].ended_at # None) <=> (rooms[room_id].status = "ended")
    /\ \A id \in DOMAIN db_rooms :
           (db_rooms[id].ended_at # None) <=> (db_rooms[id].status = "ended")

\* end_room has just ended one room, in memory and in the table, while
\* another room is still active
C3_Witness ==
    /\ call.op = "end_room"
    /\ result = "True"
    /\ rooms[call.room_id].status = "ended"
    /\ db_rooms[call.room_id].status = "ended"
    /\ db_rooms[call.room_id].ended_at # None
    /\ \E other \in DOMAIN rooms :
           /\ rooms[other].status = "active"
           /\ other \in DOMAIN db_rooms
           /\ db_rooms[other].status = "active"

\* C4: a room starts 'active', only end_room changes a room's status, and an
\* 'ended' room is never 'active' again.
C4_EndedIsTerminal ==
    [][ /\ \A room_id \in DOMAIN rooms' \ DOMAIN rooms :
               rooms'[room_id].status = "active"
        /\ \A room_id \in DOMAIN rooms :
               /\ rooms[room_id].status = "ended"
                      => rooms'[room_id].status = "ended"
               /\ rooms'[room_id].status # rooms[room_id].status
                      => call'.op = "end_room" ]_vars

Refused ==
    /\ result' = "False"
    /\ raised' = ""
    /\ UNCHANGED << rooms, participants, db_rooms, db_participants >>

\* C6: join_room on an unknown or full room, leave_room on an unknown room
\* or for a user not in the list, toggle_media on an unknown room or an
\* unmatched user and end_room on an unknown room return False, raise
\* nothing and change neither the dictionaries nor the tables; get_room and
\* room_stats of an unknown room are None.  (Stated as: every step is
\* Refused, or it is none of these failing calls.)
C6_FailuresChangeNothing ==
    /\ [](\A room_id \in RoomIds \ DOMAIN rooms :
              get_room(room_id) = None /\ room_stats(room_id) = None)
    /\ [][ LET room_id == call'.room_id
            IN  \/ Refused
                \/ /\ call'.op = "join_room" =>
                        \A user \in Users :
                            ~( /\ JoinRoom(room_id, user)
                               /\ \/ ~Known(room_id)
                                  \/ Len(rooms[room_id].participants)
                                         >= rooms[room_id].max_size )
                   /\ call'.op = "leave_room" =>
                        \A user \in Users :
                            ~( /\ LeaveRoom(room_id, user)
                               /\ \/ ~Known(room_id)
                                  \/ \A i \in 1..Len(rooms[room_id].participants) :
                                         rooms[room_id].participants[i] # user )
                   /\ call'.op = "toggle_media" =>
                        \A user \in Users, camera \in Flags, mic \in Flags :
                            ~( /\ ToggleMedia(room_id, user, camera, mic)
                               /\ \/ ~Known(room_id)
                                  \/ \A p \in participants[room_id] :
                                         p.user # user )
                   /\ call'.op = "end_room" =>
                        \A recording_url \in Urls :
                            ~( /\ EndRoom(room_id, recording_url)
                               /\ ~Known(room_id) ) ]_vars

\* leave_room has just been refused on a known room that holds somebody
\* else, while the other room id is unknown
C6_Witness ==
    /\ call.op = "leave_room"
    /\ result = "False"
    /\ Known(call.room_id)
    /\ rooms[call.room_id].participants # << >>
    /\ \E room_id \in RoomIds : ~Known(room_id)

\* C7: join_room on a known room below max_size returns True and appends
\* the user to the list, adds exactly one session with camera and mic on,
\* and inserts exactly one open participants row, all three together.
C7_JoinAppliesAllEffects ==
    [][ call'.op = "join_room" =>
        LET room_id == call'.room_id
        IN  \A user \in Users :
          ( /\ JoinRoom(room_id, user)
            /\ Known(room_id)
            /\ Len(rooms[room_id].participants) < rooms[room_id].max_size )
          => /\ result' = "True"
             /\ rooms'[room_id].participants =
                    Append(rooms[room_id].participants, user)
             /\ \E p \in participants'[room_id] \ participants[room_id] :
                    /\ participants'[room_id] = participants[room_id] \cup {p}
                    /\ p.room_id = room_id /\ p.user = user
                    /\ p.camera_on /\ p.mic_on
             /\ \E row \in db_participants' \ db_participants :
                    /\ db_participants' = db_participants \cup {row}
                    /\ row.room_id = room_id /\ row.user = user
                    /\ row.left_at = None
                    /\ row.camera_on = 1 /\ row.mic_on = 1 ]_vars

C9_EndedNeverListedAgain ==
    /\ [](\A room_id \in DOMAIN rooms :
              rooms[room_id].status = "active"
                  <=> \E snapshot \in get_active_rooms : snapshot.id = room_id)
    /\ [][ \A room_id \in DOMAIN rooms :
             rooms[room_id].status = "ended"
                 => \A snapshot \in get_active_rooms' : snapshot.id # room_id ]_vars

\* C10: a successful leave_room(r, u) removes the first occurrence of u
\* from r's list and nothing else: the other entries keep their order and
\* multiplicity, the length drops by one, no other room changes.
C10_LeaveRemovesFirstOccurrence ==
    [][ call'.op = "leave_room" =>
        LET room_id == call'.room_id
        IN  \A user \in Users :
          ( /\ LeaveRoom(room_id, user)
            /\ Known(room_id)
            /\ InList(user, rooms[room_id].participants) )
          => LET old == rooms[room_id].participants
                 new == rooms'[room_id].participants
                 first == CHOOSE i \in 1..Len(old) :
                              /\ old[i] = user
                              /\ \A j \in 1..(i - 1) : old[j] # user
             IN  /\ result' = "True"
                 /\ Len(new) = Len(old) - 1
                 /\ new = SubSeq(old, 1, first - 1)
                              \o SubSeq(old, first + 1, Len(old))
                 /\ DOMAIN rooms' = DOMAIN rooms
                 /\ \A other \in DOMAIN rooms \ {room_id} :
                        rooms'[other] = rooms[other] ]_vars

\* leave_room has just taken one user out of a list of three over two
\* users, so a duplicate of the user who left stayed behind, while another
\* room holds participants too
C10_Witness ==
    /\ call.op = "leave_room"
    /\ result = "True"
    /\ rooms[call.room_id].max_size = 3
    /\ rooms[call.room_id].participants = << "carol", "bob" >>
    /\ \E other \in DOMAIN rooms \ {call.room_id} :
           rooms[other].participants # << >>

\* C11: join_room(r, u) on a room below capacity whose list already holds u
\* returns True, appends a second entry for u to the list and adds a new
\* session for u whose id differs from the id of every session of the room.
C11_DuplicateJoinSucceeds ==
    [][ call'.op = "join_room" =>
        LET room_id == call'.room_id
        IN  \A user \in Users :
              ( /\ JoinRoom(room_id, user)
                /\ Known(room_id)
                /\ InList(user, rooms[room_id].participants)
                /\ ~RoomFull(rooms[room_id]) )
              => /\ raised' = ""
                 /\ result' = "True"
                 /\ rooms'[room_id].participants
                        = Append(rooms[room_id].participants, user)
                 /\ \E p \in participants'[room_id] \ participants[room_id] :
                        /\ p.user = user
                        /\ \A q \in participants[room_id] : q.id # p.id ]_vars

\* C12: when leave_room(r, u) has just returned True, a join_room(r, u) made
\* as the very next call returns True and leaves u in r's list.
C12_LeaveThenRejoin ==
    [][ ( /\ call.op = "leave_room"
          /\ result = "True"
          /\ call'.op = "join_room"
          /\ call'.room_id = call.room_id
          /\ JoinRoom(call.room_id, left_user) )
        => /\ raised' = ""
           /\ result' = "True"
           /\ InList(left_user, rooms'[call.room_id].participants) ]_vars

\* C13 is about sessions that have left. No reachable state holds a session:
\* every set of self.participants is empty and the participants table has no
\* row, because join_room raises before it adds either.
C13_NoSessionExists ==
    /\ \A room_id \in DOMAIN participants : participants[room_id] = {}
    /\ db_participants = {}

\* the fields of a session that toggle_media has no business with
SessionButFlags(p) ==
    [ id |-> p.id, room_id |-> p.room_id, user |-> p.user,
      joined_at |-> p.joined_at, left_at |-> p.left_at ]

EndedWith(user) ==
    { room_id \in DOMAIN rooms : /\ rooms[room_id].status = "ended"
                                 /\ InList(user, rooms[room_id].participants) }

\* C15: for n >= 0, get_user_history(u, n) is the first n of the snapshots
\* of exactly the rooms that have ended and whose list holds u, each once,
\* newest created_at first; no active room and no room without u is in it.
C15_HistoryIsEndedRoomsOfUser ==
    \A user \in Users :
        LET all == get_user_history(user, Cardinality(DOMAIN rooms))
        IN  /\ Len(all) = Cardinality(EndedWith(user))
            /\ { all[i].id : i \in 1..Len(all) } = EndedWith(user)
            /\ \A i \in 1..Len(all) : all[i] = get_room(all[i].id)[1]
            /\ \A i, j \in 1..Len(all) :
                   i < j => all[i].created_at.iso >= all[j].created_at.iso
            /\ \A n \in 0..MaxN :
                   LET h == get_user_history(user, n)
                   IN  /\ h = SubSeq(all, 1, IF n < Len(all) THEN n ELSE Len(all))
                       /\ \A i \in 1..Len(h) :
                              /\ h[i].status = "ended"
                              /\ InList(user, h[i].participants)

\* bob's history holds two ended rooms created at different times, the
\* newer one first, and is cut to the newer one by n = 1; carol, who is in
\* neither list, has an empty history
C15_Witness ==
    LET h == get_user_history("bob", 2)
    IN  /\ Len(h) = 2
        /\ h[1].created_at.iso > h[2].created_at.iso
        /\ get_user_history("bob", 1) = << h[1] >>
        /\ get_user_history("carol", 2) = << >>

\* C16: create_room raises nothing and returns an id that no room had
\* before; the new room is active with an empty list and no ended_at,
\* get_room and get_active_rooms show it, and every room that existed keeps
\* its in-memory record and its row.
C16_CreateRoomIsFresh ==
    [][ \A room_id \in RoomIds :
          ( call'.op = "create_room" /\ call'.room_id = room_id )
          => /\ raised' = ""
             /\ result' = room_id
             /\ room_id \notin DOMAIN rooms
             /\ room_id \notin DOMAIN db_rooms
             /\ rooms'[room_id].status = "active"
             /\ rooms'[room_id].participants = << >>
             /\ rooms'[room_id].ended_at = None
             /\ get_room(room_id)' # None
             /\ \E snapshot \in get_active_rooms' : snapshot.id = room_id
             /\ \A old \in DOMAIN rooms : rooms'[old] = rooms[old]
             /\ \A id \in DOMAIN db_rooms : db_rooms'[id] = db_rooms[id] ]_vars

\* how often user occurs in list
Occurrences(list, user) == Cardinality({ i \in 1..Len(list) : list[i] = user })

\* the rows of user in room_id whose left_at is NULL
OpenRows(room_id, user) ==
    { row \in db_participants :
          row.room_id = room_id /\ row.user = user /\ row.left_at = None }

\* C17: whenever the last call has returned, every user occurs in every
\* room's list as often as the participants table has open rows (left_at
\* NULL) for that room and user; and a leave_room that returns True stamps
\* exactly one open row.
C17_StoreMirrorsMembership ==
    /\ [](raised = ""
            => \A room_id \in DOMAIN rooms, user \in Users :
                   Occurrences(rooms[room_id].participants, user)
                       = Cardinality(OpenRows(room_id, user)))
    /\ [][ \A room_id \in RoomIds, user \in Users :
             ( /\ call'.op = "leave_room" /\ call'.room_id = room_id
               /\ result' = "True" /\ left_user' = user )
             => Cardinality(OpenRows(room_id, user)')
                    = Cardinality(OpenRows(room_id, user)) - 1 ]_vars

\* C18: a join_room or leave_room call changes the list of no room that has
\* ended.
C18_EndedListIsFrozen ==
    [][ call'.op \in { "join_room", "leave_room" }
        => \A room_id \in DOMAIN rooms :
               rooms[room_id].status = "ended"
               => /\ room_id \in DOMAIN rooms'
                  /\ rooms'[room_id].participants
                         = rooms[room_id].participants ]_vars

\* C19: end_room on a room that has ended already returns True and changes
\* nothing but ended_at, which becomes the time of this call, and
\* recording_url, which becomes this call's argument, in the in-memory room
\* and in its row; status stays 'ended' and the list stays as it was.
C19_SecondEndOverwrites ==
    [][ call'.op = "end_room" =>
        \A recording_url \in Urls :
          ( /\ EndRoom(call'.room_id, recording_url)
            /\ Known(call'.room_id)
            /\ rooms[call'.room_id].status = "ended" )
          => /\ result' = "True"
             /\ raised' = ""
             /\ rooms' = [ rooms EXCEPT
                             ![call'.room_id].ended_at = Some(now),
                             ![call'.room_id].recording_url = recording_url ]
             /\ rooms'[call'.room_id].status = "ended"
             /\ db_rooms' = [ db_rooms EXCEPT
                                ![call'.room_id].ended_at = Some(IsoFormat(now)),
                                ![call'.room_id].recording_url = recording_url ]
             /\ db_rooms'[call'.room_id].status = "ended"
             /\ UNCHANGED << participants, db_participants >> ]_vars

\* a room ended at time 0 with a recording has just been ended again later
\* without one: ended_at is the later time and recording_url is empty, in
\* memory and in the row, and the list still holds its participant
C19_Witness ==
    /\ call.op = "end_room"
    /\ result = "True"
    /\ ended_before = Some([ ended_at |-> Some(0), recording_url |-> "rec" ])
    /\ rooms[call.room_id].status = "ended"
    /\ rooms[call.room_id].ended_at = Some(TickSeconds)
    /\ rooms[call.room_id].recording_url = ""
    /\ rooms[call.room_id].participants # << >>
    /\ db_rooms[call.room_id].status = "ended"
    /\ db_rooms[call.room_id].ended_at = Some(IsoFormat(TickSeconds))
    /\ db_rooms[call.room_id].recording_url = ""

\* C20: without mutual exclusion, two join_room calls on one room that both
\* passed the capacity check on the same list, so before either appended,
\* both return True; and if that list had one place left, the room ends up
\* with more than max_size participants.
C20_RacingJoinsBothSucceed ==
    \A t1, t2 \in Callers :
        ( /\ t1 # t2
          /\ callers[t1].pc = "done" /\ callers[t2].pc = "done"
          /\ callers[t1].room_id = callers[t2].room_id
          /\ callers[t1].result # "False" /\ callers[t2].result # "False"
          /\ callers[t1].saw = callers[t2].saw )
        => LET room == rooms[callers[t1].room_id]
           IN  /\ callers[t1].result = "True"
               /\ callers[t2].result = "True"
               /\ callers[t1].saw = room.max_size - 1
                      => Len(room.participants) > room.max_size

\* both racing calls are over and an active room of max_size 1 lists two
C20_Overfilled ==
    /\ \A t \in Callers : callers[t].pc = "done" /\ callers[t].result # "False"
    /\ rooms["r1"].status = "active"
    /\ rooms["r1"].max_size = 1
    /\ Len(rooms["r1"].participants) = 2
====
